---- MODULE Spec2Model ----
(***************************************************************************)
(* Model of the download orchestrator of oci-registry-client               *)
(* (src/src/main.rs): the layer scan that spawns one download_layer task   *)
(* per distinct digest, the tasks streaming their blobs and reporting      *)
(* progress on an unbounded mpsc channel, and the consumer loop of main    *)
(* that owns the progress table layers_status.                             *)
(*                                                                         *)
(* The registry and the HTTP transport are the environment.  A blob body   *)
(* whose length the transport knows (content-length) never delivers more   *)
(* than that many bytes and ends with end-of-stream exactly when all of    *)
(* them were delivered; it ends with an error otherwise.  A body without   *)
(* content-length can end either way after any number of bytes.            *)
(*                                                                         *)
(* The library itself is modelled beside it, each part under its own       *)
(* specification: the Digest conversions of src/src/manifest.rs            *)
(* (DigestSpec), the streaming Blob of src/src/blob.rs (BlobSpec) and the  *)
(* requests of DockerRegistryClientV2 in src/src/lib.rs (ClientSpec).      *)
(***************************************************************************)
EXTENDS Integers, Sequences, FiniteSets, TLC

\* ------------------------------------------------------------------ bounds

\* Longest manifest layer list explored.
MaxLayers == 3

\* Largest blob body, in bytes.
MaxTotal == 2

\* The digests a manifest may name (two distinct blobs).
Digests == {"d1", "d2"}

\* Sizes of the chunks the transport hands out.
ChunkSizes == 1..MaxTotal

\* ------------------------------------------------------------- option type

\* Option<usize>: None is the empty sequence, Some(x) a one-element sequence.
None == <<>>

Some(x) == <<x>>

IsSome(o) == Len(o) = 1

Unwrap(o) == o[1]

\* ---------------------------------------------------------------- the state

VARIABLES
    layers,         \* response.layers: the manifest's layer digests, in order
    registry,       \* environment: what the registry answers for each digest
    mainPc,         \* main: "scan" (for loop), "recv" (rx.recv().await), "done"
    n,              \* main: number of layers the for loop has enumerated
    layers_status,  \* main: the progress table
    tasks,          \* the spawned download_layer futures, in spawn order
    chan,           \* the unbounded mpsc channel: reports sent, not yet received
    screen,         \* the table as last rendered by the consumer loop
    input,          \* Digest conversions: the value the conversions started from
    val,            \* Digest conversions: the value obtained so far
    trail,          \* Digest conversions: the conversions applied, in order
    blob,           \* a Blob: its response stream and its hasher
    returned,       \* a Blob: the results chunk() has returned to the caller
    blob_digest,    \* a Blob: what digest() returned, once called
    auth_token,     \* DockerRegistryClientV2::auth_token
    last_set,       \* the argument of the latest set_auth_token call
    request,        \* the request the client's latest call sent
    response,       \* what the transport answered to it
    outcome,        \* the Result the client's latest call returned
    calls           \* number of client calls made

\* The state of main and its tasks.
orchVars == <<layers, registry, mainPc, n, layers_status, tasks, chan, screen>>

\* The state of the Digest conversions.
digestVars == <<input, val, trail>>

\* The state of one Blob and its caller.
blobVars == <<blob, returned, blob_digest>>

\* The state of one client and its latest call.
clientVars == <<auth_token, last_set, request, response, outcome, calls>>

\* What a run of main leaves alone.
libVars == <<digestVars, blobVars, clientVars>>

vars == <<orchVars, digestVars, blobVars, clientVars>>

\* enum LayerDownloadStatus
Unknown(digest) == [tag |-> "Unknown", digest |-> digest]

Downloading(digest, downloaded, total) ==
    [tag |-> "Downloading", digest |-> digest,
     downloaded |-> downloaded, total |-> total]

Completed(digest) == [tag |-> "Completed", digest |-> digest]

\* A test that takes every entry a report has reached for completed.
completed_once_reported(s) == s.tag # "Unknown"

\* LayerDownloadStatus::completed
completed(s) == s.tag = "Completed"

\* struct DownloadProgressReport
DownloadProgressReport(idx, digest, downloaded, total) ==
    [n |-> idx, digest |-> digest, downloaded |-> downloaded, total |-> total]

\* ----------------------------------------------------------- environment

\* What client.blob() and the stream behind it do for one digest:
\*   status  "ok": blob() returns a Blob; "err": blob() returns Err
\*   len     Blob::len(): the content-length, if the response carries one
\*   body    the bytes the stream delivers before it ends
\*   end     how the stream ends: "eof" (Ok(None)) or "error" (Err)
BlobResponses ==
    { r \in [status : {"ok", "err"},
             len : {None} \cup {Some(t) : t \in 0..MaxTotal},
             body : 0..MaxTotal,
             end : {"eof", "error"}] :
        /\ r.status = "err" => (r.len = None /\ r.body = 0 /\ r.end = "error")
        /\ IsSome(r.len) =>
             /\ r.body <= Unwrap(r.len)
             /\ (r.end = "eof") <=> (r.body = Unwrap(r.len)) }

\* The layer lists of a manifest, duplicates allowed.  Digests are
\* interchangeable names, so the first layer's digest is called "d1".
LayerLists ==
    { l \in UNION { [1..k -> Digests] : k \in 0..MaxLayers } :
        l # << >> => l[1] = "d1" }

Range(f) == { f[i] : i \in DOMAIN f }

\* ------------------------------------------------------------------- Init

\* No Digest conversion is under way.
DigestIdle == input = None /\ val = None /\ trail = << >>

\* No Blob is open.
BlobIdle == blob = None /\ returned = << >> /\ blob_digest = None

\* No client call is under way.
ClientIdle ==
    /\ auth_token = None
    /\ last_set = None
    /\ request = None
    /\ response = None
    /\ outcome = None
    /\ calls = 0

\* main is not running.
OrchIdle ==
    /\ layers = << >>
    /\ registry = << >>
    /\ mainPc = "idle"
    /\ n = 0
    /\ layers_status = << >>
    /\ tasks = << >>
    /\ chan = << >>
    /\ screen = << >>

Init ==
    /\ layers \in LayerLists
    /\ registry \in [Range(layers) -> BlobResponses]
    /\ mainPc = "scan"
    /\ n = 0
    /\ layers_status = <<>>
    /\ tasks = <<>>
    /\ chan = <<>>
    /\ screen = <<>>
    /\ DigestIdle
    /\ BlobIdle
    /\ ClientIdle

\* ------------------------------------------------------------ main: scan

\* A scan that compares a layer with its immediate predecessor only.
AlreadySeenAdjacent(ls, k) == k >= 1 /\ ls[k] = ls[k + 1]

\* response.layers[0..n].iter().any(|l| l.digest == layer.digest), for the
\* layer at 0-based position k.
AlreadySeen(ls, k) == \E j \in 1..k : ls[j] = ls[k + 1]

\* A spawn that hands the task the layer's position in the manifest.
NewTaskAtLayer(idx, digest) ==
    [n |-> n, digest |-> digest, pc |-> "open", total |-> None,
     downloaded |-> 0, pending |-> 0, written |-> 0]

\* A freshly spawned download_layer(n, digest, layer, client, tx) future.
NewTask(idx, digest) ==
    [n |-> idx, digest |-> digest, pc |-> "open", total |-> None,
     downloaded |-> 0, pending |-> 0, written |-> 0]

\* One iteration of `for (n, layer) in response.layers.iter().cloned().enumerate()`.
ScanLayer ==
    /\ mainPc = "scan"
    /\ n < Len(layers)
    /\ n' = n + 1
    /\ IF AlreadySeen(layers, n)
       THEN UNCHANGED <<layers_status, tasks>>
       ELSE /\ layers_status' = Append(layers_status, Unknown(layers[n + 1]))
            /\ tasks' = Append(tasks, NewTask(Len(layers_status), layers[n + 1]))
    /\ UNCHANGED <<layers, registry, mainPc, chan, screen>>
    /\ UNCHANGED libVars

\* The for loop is exhausted: main enters `loop { rx.recv().await ... }`.
ScanDone ==
    /\ mainPc = "scan"
    /\ n = Len(layers)
    /\ mainPc' = "recv"
    /\ UNCHANGED <<layers, registry, n, layers_status, tasks, chan, screen>>
    /\ UNCHANGED libVars

\* -------------------------------------------------------- download_layer

\* The results blob.chunk().await can give a task that has received
\* `downloaded` bytes of a body answered as r: a chunk of some size while
\* bytes remain, then the end the stream has.
ChunkResults(r, downloaded) ==
    IF downloaded < r.body
    THEN { [kind |-> "chunk", size |-> s] :
             s \in { c \in ChunkSizes : c <= r.body - downloaded } }
    ELSE { [kind |-> r.end, size |-> 0] }

\* A loop body that reports also without a total (total.unwrap_or(0)).
ReportsAlways(idx, digest, downloaded, total) ==
    << DownloadProgressReport(idx, digest, downloaded,
                              IF IsSome(total) THEN Unwrap(total) ELSE 0) >>

\* A loop body that reports the total where the byte count belongs.
ReportsTotalTwice(idx, digest, downloaded, total) ==
    IF IsSome(total)
    THEN << DownloadProgressReport(idx, digest, Unwrap(total), Unwrap(total)) >>
    ELSE << >>

\* What the loop body sends on tx after a chunk: one report when the total
\* is known, nothing otherwise (`if let Some(total) = total { tx.send(..) }`).
Reports(idx, digest, downloaded, total) ==
    IF IsSome(total)
    THEN << DownloadProgressReport(idx, digest, downloaded, Unwrap(total)) >>
    ELSE << >>

\* client.blob("library/alpine", &layer.digest).await.unwrap(); blob.len();
\* File::create(..).  An Err from blob() panics the task.
TaskOpen(i) ==
    /\ i \in DOMAIN tasks
    /\ tasks[i].pc = "open"
    /\ LET r == registry[tasks[i].digest]
       IN  tasks' = [tasks EXCEPT ![i] =
             IF r.status = "ok"
             THEN [@ EXCEPT !.pc = "chunk", !.total = r.len]
             ELSE [@ EXCEPT !.pc = "panicked"]]
    /\ UNCHANGED <<layers, registry, mainPc, n, layers_status, chan, screen>>
    /\ UNCHANGED libVars

\* blob.chunk().await.unwrap() and the loop body up to tx.send(..).unwrap():
\* Ok(Some(chunk)) adds to downloaded and sends the report, Ok(None) leaves
\* the loop and the task returns Ok(()), Err panics the task.  A send after
\* main has dropped rx fails, and its unwrap panics the task.
TaskChunk(i) ==
    /\ i \in DOMAIN tasks
    /\ tasks[i].pc = "chunk"
    /\ \E res \in ChunkResults(registry[tasks[i].digest], tasks[i].downloaded) :
         LET t == tasks[i]
             d == t.downloaded + res.size
             reps == Reports(t.n, t.digest, d, t.total)
         IN  IF res.kind = "chunk"
             THEN IF reps # << >> /\ mainPc = "done"
                  THEN /\ tasks' = [tasks EXCEPT ![i] =
                             [@ EXCEPT !.pc = "panicked", !.downloaded = d]]
                       /\ UNCHANGED chan
                  ELSE /\ tasks' = [tasks EXCEPT ![i] =
                             [@ EXCEPT !.pc = "write", !.downloaded = d,
                                       !.pending = res.size]]
                       /\ chan' = chan \o reps
             ELSE /\ tasks' = [tasks EXCEPT ![i] =
                        [@ EXCEPT !.pc = IF res.kind = "eof"
                                         THEN "returned" ELSE "panicked"]]
                  /\ UNCHANGED chan
    /\ UNCHANGED <<layers, registry, mainPc, n, layers_status, screen>>
    /\ UNCHANGED libVars

\* out_file.write_all(&chunk).unwrap(): the chunk reaches the sink, and the
\* loop goes back to blob.chunk().
TaskWrite(i) ==
    /\ i \in DOMAIN tasks
    /\ tasks[i].pc = "write"
    /\ tasks' = [tasks EXCEPT ![i] =
          [@ EXCEPT !.pc = "chunk", !.written = @ + tasks[i].pending,
                    !.pending = 0]]
    /\ UNCHANGED <<layers, registry, mainPc, n, layers_status, chan, screen>>
    /\ UNCHANGED libVars

\* main has returned and the runtime shuts down: a task suspended at an
\* .await (blob() or chunk()) is dropped there.
RuntimeShutdown(i) ==
    /\ mainPc = "done"
    /\ i \in DOMAIN tasks
    /\ tasks[i].pc \in {"open", "chunk"}
    /\ tasks' = [tasks EXCEPT ![i] = [@ EXCEPT !.pc = "cancelled"]]
    /\ UNCHANGED <<layers, registry, mainPc, n, layers_status, chan, screen>>
    /\ UNCHANGED libVars

\* ------------------------------------------------------- main: consumer

\* An update that takes `downloaded <= total` for completion.
UpdateAtMost(table, progress) ==
    IF progress.downloaded <= progress.total
    THEN [table EXCEPT ![progress.n + 1] = Completed(progress.digest)]
    ELSE [table EXCEPT ![progress.n + 1] =
            Downloading(progress.digest, progress.downloaded, progress.total)]

\* An update with the branches of the comparison exchanged.
UpdateInverted(table, progress) ==
    IF progress.downloaded # progress.total
    THEN [table EXCEPT ![progress.n + 1] = Completed(progress.digest)]
    ELSE [table EXCEPT ![progress.n + 1] =
            Downloading(progress.digest, progress.downloaded, progress.total)]

\* An update that also puts every other entry back to Unknown.
UpdateResetOthers(table, progress) ==
    [j \in 1..Len(table) |->
       IF j = progress.n + 1
       THEN (IF progress.downloaded = progress.total
             THEN Completed(progress.digest)
             ELSE Downloading(progress.digest, progress.downloaded,
                              progress.total))
       ELSE Unknown(table[j].digest)]

\* The table after one report: Completed when downloaded == total, else
\* Downloading; the entry is the one at index progress.n.
Update(table, progress) ==
    IF progress.downloaded = progress.total
    THEN [table EXCEPT ![progress.n + 1] = Completed(progress.digest)]
    ELSE [table EXCEPT ![progress.n + 1] =
            Downloading(progress.digest, progress.downloaded, progress.total)]

\* `*downloaded as f32 / *total as f32 * 100f32`, in whole percents; a
\* float division by zero gives inf (NaN for 0/0).
Percent(downloaded, total) ==
    IF total = 0
    THEN (IF downloaded = 0 THEN "NaN" ELSE "inf")
    ELSE (downloaded * 100) \div total

\* The lines the loop prints for the table, one per entry.
Render(table) ==
    [i \in 1..Len(table) |->
       CASE table[i].tag = "Unknown" ->
              [digest |-> table[i].digest, text |-> "unknown"]
         [] table[i].tag = "Downloading" ->
              [digest |-> table[i].digest, text |-> "progress",
               percent |-> Percent(table[i].downloaded, table[i].total)]
         [] table[i].tag = "Completed" ->
              [digest |-> table[i].digest, text |-> "completed"]]

\* A loop that breaks as soon as some entry is completed.
AnyCompleted(table) == \E i \in 1..Len(table) : completed(table[i])

\* layers_status.iter().all(|s| s.completed())
AllCompleted(table) == \A i \in 1..Len(table) : completed(table[i])

\* One turn of the loop: rx.recv().await.unwrap(), the table update, the
\* rendering, and the break when every entry is completed.  rx.recv() never
\* yields None, for main itself keeps the sender tx.
Consume ==
    /\ mainPc = "recv"
    /\ chan # << >>
    /\ chan' = Tail(chan)
    /\ layers_status' = Update(layers_status, Head(chan))
    /\ screen' = Render(layers_status')
    /\ mainPc' = IF AllCompleted(layers_status') THEN "done" ELSE "recv"
    /\ UNCHANGED <<layers, registry, n, tasks>>
    /\ UNCHANGED libVars

\* ------------------------------------------------------ the specification

\* At most one task per digest is ever spawned.
TaskIds == 1..Cardinality(Digests)

Next ==
    \/ ScanLayer
    \/ ScanDone
    \/ Consume
    \/ \E i \in TaskIds : TaskOpen(i)
    \/ \E i \in TaskIds : TaskChunk(i)
    \/ \E i \in TaskIds : TaskWrite(i)
    \/ \E i \in TaskIds : RuntimeShutdown(i)

Spec == Init /\ [][Next]_vars

\* The tokio runtime polls every runnable task and main's own future, and the
\* transport answers every request: each enabled step is eventually taken.
Fairness ==
    /\ WF_vars(ScanLayer)
    /\ WF_vars(ScanDone)
    /\ WF_vars(Consume)
    /\ \A i \in TaskIds :
         /\ WF_vars(TaskOpen(i))
         /\ WF_vars(TaskChunk(i))
         /\ WF_vars(TaskWrite(i))

FairSpec == Spec /\ Fairness

\* ------------------------------------------------- manifest.rs: Digest

\* Longest text handed to the parser.
MaxLen == 4

\* Longest algorithm or hash of a Digest built directly from its fields.
MaxField == 2

\* Most conversions applied in a row.
MaxOps == 2

\* The characters of the texts: two ordinary ones and the separator.
Chars == {"a", "b", ":"}

\* The texts of at most k characters.
Strs(k) == UNION { [1..m -> Chars] : m \in 0..k }

\* A String value.
Str(s) == [kind |-> "str", s |-> s]

\* struct Digest { algorithm, hash }
Digest(algorithm, hash) ==
    [kind |-> "digest", algorithm |-> algorithm, hash |-> hash]

\* struct ParseDigestError, also as wrapped by de::Error::custom
ParseDigestError == [kind |-> "err"]

\* s.splitn(2, ':') cutting at the last separator instead of the first.
SplitN2Last(s) ==
    IF \E i \in 1..Len(s) : s[i] = ":"
    THEN LET i == CHOOSE i \in 1..Len(s) :
                     s[i] = ":" /\ \A j \in (i + 1)..Len(s) : s[j] # ":"
         IN  << SubSeq(s, 1, i - 1), SubSeq(s, i + 1, Len(s)) >>
    ELSE << s >>

\* s.splitn(2, ':'): the text before the first ':' and the text after it,
\* or the whole text alone when it holds no ':'.
SplitN2(s) ==
    IF \E i \in 1..Len(s) : s[i] = ":"
    THEN LET i == CHOOSE i \in 1..Len(s) :
                     s[i] = ":" /\ \A j \in 1..(i - 1) : s[j] # ":"
         IN  << SubSeq(s, 1, i - 1), SubSeq(s, i + 1, Len(s)) >>
    ELSE << s >>

\* A parser that keeps of the hash only the text up to the next ':'.
from_str_split_all(s) ==
    LET split_it == SplitN2(s)
    IN  IF Len(split_it) < 2
        THEN ParseDigestError
        ELSE Digest(split_it[1], SplitN2(split_it[2])[1])

\* <Digest as FromStr>::from_str: the first part is the algorithm, the
\* second the hash; a missing part is ParseDigestError.
from_str(s) ==
    LET split_it == SplitN2(s)
    IN  IF Len(split_it) < 1
        THEN ParseDigestError
        ELSE IF Len(split_it) < 2
             THEN ParseDigestError
             ELSE Digest(split_it[1], split_it[2])

\* A Display that writes the hash first.
to_string_swapped(d) == d.hash \o << ":" >> \o d.algorithm

\* <Digest as Display>::fmt: write!(f, "{}:{}", &self.algorithm, &self.hash)
to_string(d) == d.algorithm \o << ":" >> \o d.hash

\* <Digest as Serialize>::serialize: the string
\* format!("{}:{}", &self.hash, &self.algorithm)
serialize(d) == d.hash \o << ":" >> \o d.algorithm

\* <Digest as Deserialize>::deserialize: the string, parsed
deserialize(s) == from_str(s)

\* The values a conversion can start from: a text, or a Digest built from
\* its two public fields.
DigestInputs ==
    { Str(s) : s \in Strs(MaxLen) }
      \cup { Digest(a, h) : a \in Strs(MaxField), h \in Strs(MaxField) }

DigestInit ==
    /\ input \in DigestInputs
    /\ val = input
    /\ trail = << >>
    /\ OrchIdle
    /\ BlobIdle
    /\ ClientIdle

\* One more conversion op turns the value into v.
Convert(op, v) ==
    /\ Len(trail) < MaxOps
    /\ val' = v
    /\ trail' = Append(trail, op)
    /\ UNCHANGED <<input, orchVars, blobVars, clientVars>>

\* s.parse::<Digest>()
DigestFromStr == val.kind = "str" /\ Convert("from_str", from_str(val.s))

\* digest.to_string()
DigestToString == val.kind = "digest" /\ Convert("to_string", Str(to_string(val)))

\* serde: a Digest written as a string
DigestSerialize == val.kind = "digest" /\ Convert("serialize", Str(serialize(val)))

\* serde: a Digest read from a string
DigestDeserialize == val.kind = "str" /\ Convert("deserialize", deserialize(val.s))

DigestNext ==
    \/ DigestFromStr
    \/ DigestToString
    \/ DigestSerialize
    \/ DigestDeserialize

DigestSpec == DigestInit /\ [][DigestNext]_vars

\* ------------------------------------------------- results and errors

\* Result::Ok and Result::Err
Ok(v) == [tag |-> "Ok", v |-> v]

Err(e) == [tag |-> "Err", e |-> e]

\* enum ErrorResponse: its two variants.  The reqwest::Error a RequestError
\* wraps is named by the call it came from: "send", "json" or "chunk".
APIError(errors) == [variant |-> "APIError", errors |-> errors]

RequestError(source) == [variant |-> "RequestError", source |-> source]

\* ------------------------------------------------- the streaming Blob

\* Longest chunk the transport hands out, in bytes.
MaxChunk == 2

\* Most events (chunks and errors) a response stream holds before its end.
MaxEvents == 2

\* Most chunk() calls made on one Blob.
MaxCalls == 3

\* The byte values of a body.
Octets == {"a", "b"}

\* The chunks the transport can hand out.
Chunks == UNION { [1..m -> Octets] : m \in 1..MaxChunk }

\* What response.chunk() can yield before the end of the stream.
ChunkEvent(c) == [ev |-> "chunk", bytes |-> c]

ErrorEvent == [ev |-> "error"]

StreamEvents == { ChunkEvent(c) : c \in Chunks } \cup { ErrorEvent }

\* The bytes of the chunks among the first k events, in order.
RECURSIVE ChunkBytes(_, _)
ChunkBytes(events, k) ==
    IF k = 0
    THEN << >>
    ELSE ChunkBytes(events, k - 1)
           \o (IF events[k].ev = "chunk" THEN events[k].bytes ELSE << >>)

\* Sha256::result(): the hash of all the input so far, as a value that
\* stands for the 32 bytes.
Sha256Result(message) == [sha256 |-> message]

\* format!("{:x}", hash): the lowercase hexadecimal text of a hash.
LowerHex(hash) == [hex |-> hash]

\* Digest::from_sha256
from_sha256(hash) ==
    Digest(<< "s", "h", "a", "2", "5", "6" >>, LowerHex(hash))

\* A hasher that takes each chunk in twice.
hasher_input_twice(hasher, chunk) == hasher \o chunk \o chunk

\* Sha256::input: the hasher's state is the input it has been given.
hasher_input(hasher, chunk) == hasher \o chunk

\* impl From<reqwest::Response> for Blob (content_type left out): the
\* response is the stream's events and the number of them already read.
BlobFrom(events, len) ==
    [response |-> [events |-> events, pos |-> 0],
     len |-> len,
     hasher |-> << >>]

BlobInit ==
    /\ \E events \in UNION { [1..k -> StreamEvents] : k \in 0..MaxEvents } :
         \E len \in {None, Some(Len(ChunkBytes(events, Len(events))))} :
           blob = Some(BlobFrom(events, len))
    /\ returned = << >>
    /\ blob_digest = None
    /\ OrchIdle
    /\ DigestIdle
    /\ ClientIdle

\* Blob::chunk: one response.chunk().await; a chunk goes into the hasher
\* and then to the caller, the end of the stream and an error go to the
\* caller as they are.
BlobChunk ==
    /\ blob # None
    /\ blob_digest = None
    /\ Len(returned) < MaxCalls
    /\ LET b == Unwrap(blob)
           r == b.response
       IN  IF r.pos < Len(r.events)
           THEN LET e == r.events[r.pos + 1]
                    read == [r EXCEPT !.pos = r.pos + 1]
                IN  IF e.ev = "chunk"
                    THEN /\ blob' = Some([b EXCEPT
                                !.response = read,
                                !.hasher = hasher_input(b.hasher, e.bytes)])
                         /\ returned' = Append(returned, Ok(Some(e.bytes)))
                    ELSE /\ blob' = Some([b EXCEPT !.response = read])
                         /\ returned' =
                              Append(returned, Err(RequestError("chunk")))
           ELSE /\ blob' = blob
                /\ returned' = Append(returned, Ok(None))
    /\ UNCHANGED <<blob_digest, orchVars, digestVars, clientVars>>

\* Blob::digest(self): the Blob is given up, no call follows this one.
BlobDigest ==
    /\ blob # None
    /\ blob_digest = None
    /\ blob_digest' = Some(from_sha256(Sha256Result(Unwrap(blob).hasher)))
    /\ UNCHANGED <<blob, returned, orchVars, digestVars, clientVars>>

BlobNext ==
    \/ BlobChunk
    \/ BlobDigest

BlobSpec == BlobInit /\ [][BlobNext]_vars

\* ------------------------------------------------- the registry client

\* Most entries of an error list.
MaxErrors == 1

\* Most calls made on one client.
MaxClientCalls == 3

\* StatusCode::OK
StatusOK == 200

\* The statuses a registry answers with: OK, Created, Not Found.
Statuses == {StatusOK, 201, 404}

\* The access tokens there are.
Tokens == {"t1", "t2"}

\* struct AuthToken (expires_in and issued_at left out)
AuthToken(access_token) == [access_token |-> access_token]

\* The decoded entries of an error body.
ErrorCodes == {"e1", "e2"}

\* struct ErrorList: its errors.
ErrorLists == UNION { [1..k -> ErrorCodes] : k \in 0..MaxErrors }

\* The methods of the client that send a request.
Ops == {"auth", "version", "list_manifests", "manifest", "config", "blob"}

\* A response body, by what decoding it gives: `typed` is the value
\* json::<T>() yields for the type T the call expects, `errors` the list
\* json::<ErrorList>() yields; None where that decoding fails.
Bodies ==
    [typed : {None, Some("value")},
     errors : {None} \cup { Some(es) : es \in ErrorLists }]

\* What request.send().await gives: an error, or a response.
SendFailed == [sent |-> FALSE]

Responses ==
    {SendFailed} \cup [sent : {TRUE}, status : Statuses, body : Bodies]

\* A conversion that reports every reqwest error as an empty API error.
from_reqwest_error_api(error) == APIError(<< >>)

\* impl From<reqwest::Error> for ErrorResponse, as `?` applies it
from_reqwest_error(error) == RequestError(error)

\* A status test that takes every status below 300 for a success.
status_is_ok_below_300(status) == status < 300

\* match response.status() { StatusCode::OK => ..., _ => ... }
status_is_ok(status) == status = StatusOK

\* response.json::<T>().await?
json_typed(body) ==
    IF body.typed # None
    THEN Ok(Unwrap(body.typed))
    ELSE Err(from_reqwest_error("json"))

\* Err(ErrorResponse::APIError(response.json::<ErrorList>().await?))
json_errors(body) ==
    IF body.errors # None
    THEN Err(APIError(Unwrap(body.errors)))
    ELSE Err(from_reqwest_error("json"))

\* What Blob::from(response) stands for in an outcome.
OpenedBlob == [kind |-> "Blob"]

\* The Result of a call, from what the transport answered: the arms
\* after send().await? in auth, request and blob.
result_of(op, resp) ==
    IF ~resp.sent
    THEN Err(from_reqwest_error("send"))
    ELSE IF status_is_ok(resp.status)
         THEN IF op = "blob" THEN Ok(OpenedBlob) ELSE json_typed(resp.body)
         ELSE json_errors(resp.body)

\* A setter that keeps the old token when given None.
set_token_keep(old, token) == IF token = None THEN old ELSE token

\* set_auth_token: self.auth_token = token
set_token(old, token) == token

\* if let Some(token) = self.auth_token.clone()
\*     { request = request.bearer_auth(token.access_token); }
\* auth builds its request without it.
bearer_of(op, token) ==
    IF op # "auth" /\ token # None
    THEN Some(Unwrap(token).access_token)
    ELSE None

\* The Accept header of request(); auth and blob send none.
accept_of(op) ==
    CASE op = "version" -> Some("applicatin/json")
      [] op = "list_manifests" ->
           Some("application/vnd.docker.distribution.manifest.list.v2+json")
      [] op = "manifest" ->
           Some("application/vnd.docker.distribution.manifest.v2+json")
      [] op = "config" ->
           Some("application/vnd.docker.container.image.v1+json")
      [] OTHER -> None

\* DockerRegistryClientV2::new: auth_token is None, nothing was sent.
ClientInit ==
    /\ ClientIdle
    /\ OrchIdle
    /\ DigestIdle
    /\ BlobIdle

\* client.set_auth_token(token): sends nothing.
SetAuthToken ==
    /\ calls < MaxClientCalls
    /\ \E token \in {None} \cup { Some(AuthToken(t)) : t \in Tokens } :
         /\ auth_token' = set_token(auth_token, token)
         /\ last_set' = token
    /\ request' = None
    /\ response' = None
    /\ outcome' = None
    /\ calls' = calls + 1
    /\ UNCHANGED <<orchVars, digestVars, blobVars>>

\* One call of auth, version, list_manifests, manifest, config or blob:
\* the request is built and sent, the transport answers, and the answer is
\* turned into the call's Result.
ClientCall(op) ==
    /\ calls < MaxClientCalls
    /\ request' = Some([op |-> op,
                        accept |-> accept_of(op),
                        bearer |-> bearer_of(op, auth_token)])
    /\ \E resp \in Responses :
         /\ response' = Some(resp)
         /\ outcome' = Some(result_of(op, resp))
    /\ calls' = calls + 1
    /\ UNCHANGED <<auth_token, last_set, orchVars, digestVars, blobVars>>

ClientNext ==
    \/ SetAuthToken
    \/ \E op \in Ops : ClientCall(op)

ClientSpec == ClientInit /\ [][ClientNext]_vars

\* ------------------------------------------------------------ properties

\* The distinct digests among the first k layers.
DistinctDigests(k) == { layers[j] : j \in 1..k }

\* C1: the scan schedules exactly one fetch task per distinct digest: after
\* any number of scanned layers, the number of spawned tasks and the length
\* of the progress table both equal the number of distinct digests scanned,
\* and no two tasks fetch the same digest.
C1_OneTaskPerDistinctDigest ==
    /\ Len(tasks) = Cardinality(DistinctDigests(n))
    /\ Len(layers_status) = Cardinality(DistinctDigests(n))
    /\ \A i, j \in DOMAIN tasks : tasks[i].digest = tasks[j].digest => i = j
    /\ mainPc # "scan" => n = Len(layers)

\* The scan of [d1, d1, d2] has finished with 2 tasks.
C1_Witness ==
    /\ mainPc # "scan"
    /\ layers = << "d1", "d1", "d2" >>
    /\ Len(tasks) = 2
    /\ Len(layers_status) = 2

\* A blob with a known positive total whose stream delivers all its bytes.
GoodBlob(r) ==
    /\ r.status = "ok"
    /\ IsSome(r.len)
    /\ Unwrap(r.len) > 0
    /\ r.body = Unwrap(r.len)
    /\ r.end = "eof"

\* C2: when at least one task is scheduled, every scheduled task has a known
\* positive total and its stream delivers chunks that sum to that total,
\* then under fair scheduling, for every interleaving and every chunking,
\* the consumer loop eventually terminates with every table entry Completed
\* and every task having received exactly its total.
C2_HappyPathTerminates ==
    (layers # << >> /\ \A d \in Range(layers) : GoodBlob(registry[d]))
      => <>( /\ mainPc = "done"
             /\ Len(layers_status) = Cardinality(Range(layers))
             /\ AllCompleted(layers_status)
             /\ \A i \in DOMAIN tasks :
                  tasks[i].total = Some(tasks[i].downloaded) )

\* Two tasks of MaxTotal bytes each have run to the end and main has left
\* its loop with both entries Completed.
C2_Witness ==
    /\ mainPc = "done"
    /\ Len(tasks) = 2
    /\ \A i \in DOMAIN tasks :
         /\ tasks[i].total = Some(MaxTotal)
         /\ tasks[i].downloaded = MaxTotal
         /\ completed(layers_status[i])

\* The reports of task index idx (0-based) still in the channel.
InFlight(idx) == { k \in DOMAIN chan : chan[k].n = idx }

\* C3 (as claimed): with a manifest of zero layers main never waits for a
\* progress event: it is never suspended at rx.recv().
C3_ZeroLayersNeverWaits ==
    layers = << >> => mainPc # "recv"

\* C4 (as claimed): a task without content-length whose stream has reached
\* end-of-stream is marked Completed once the channel holds nothing more
\* for the consumer to receive.
C4_UnknownTotalCompleted ==
    \A i \in DOMAIN tasks :
        ( /\ tasks[i].pc = "returned"
          /\ tasks[i].total = None
          /\ mainPc = "recv"
          /\ chan = << >> )
        => completed(layers_status[i])

\* C5: for a task whose blob has no content-length the consumer never
\* computes a percentage: its entry is never Downloading and no rendering
\* of the table shows a percentage on its line.
C5_NoPercentForUnknownTotal ==
    \A i \in DOMAIN tasks :
        registry[tasks[i].digest].len = None =>
            /\ layers_status[i].tag # "Downloading"
            /\ i \in DOMAIN screen => screen[i].text # "progress"

\* A task without content-length has received bytes, and the consumer has
\* rendered the table (with its line in it) since.
C5_Witness ==
    \E i \in DOMAIN tasks :
        /\ tasks[i].pc \in {"chunk", "write", "returned", "panicked"}
        /\ tasks[i].total = None
        /\ tasks[i].downloaded > 0
        /\ i \in DOMAIN screen
        /\ screen[i].text = "unknown"

\* A blob that opens and whose stream then fails before its end.
FailsMidBlob(r) == r.status = "ok" /\ r.end = "error"

\* download_layer has ended: returned, panicked, or dropped by the runtime.
Terminated(t) == t.pc \in {"returned", "panicked", "cancelled"}

\* No report that would make the consumer mark task i Completed is in the
\* channel, and its entry is not Completed.
NoCompletionFor(i) ==
    /\ \A k \in InFlight(tasks[i].n) : chan[k].downloaded # chan[k].total
    /\ ~completed(layers_status[i])

\* C6: a task whose blob stream fails mid-blob terminates (under fair
\* scheduling, every layer digest with such a blob ends up with its task
\* terminated), and at no time is a report that makes the consumer mark it
\* Completed in the channel, nor is its entry Completed.
C6_FailedTaskEndsWithoutCompleted ==
    /\ [](\A i \in DOMAIN tasks :
            FailsMidBlob(registry[tasks[i].digest]) => NoCompletionFor(i))
    /\ <>[](\A d \in Range(layers) :
              FailsMidBlob(registry[d]) =>
                \E i \in DOMAIN tasks :
                    tasks[i].digest = d /\ Terminated(tasks[i]))

\* A task with a known total has panicked on a stream error after some of
\* its bytes, and the consumer has recorded one of its reports.
C6_Witness ==
    \E i \in DOMAIN tasks :
        /\ tasks[i].pc = "panicked"
        /\ IsSome(tasks[i].total)
        /\ tasks[i].downloaded > 0
        /\ tasks[i].downloaded < Unwrap(tasks[i].total)
        /\ layers_status[i].tag = "Downloading"

\* C7 (as claimed): once a task has failed mid-stream and the consumer has
\* received everything it sent, the task's entry is recorded as ended: it
\* is neither Unknown nor Downloading.
C7_FailureRecorded ==
    \A i \in DOMAIN tasks :
        ( /\ FailsMidBlob(registry[tasks[i].digest])
          /\ tasks[i].pc = "panicked"
          /\ mainPc = "recv"
          /\ InFlight(tasks[i].n) = {} )
        => layers_status[i].tag \notin {"Unknown", "Downloading"}

\* C8: in every reachable state, also after the runtime has cancelled the
\* tasks, an entry is Completed only if its task has received as many bytes
\* as its total, which is the whole body of the blob.
C8_CompletedOnlyIfAllReceived ==
    \A i \in DOMAIN layers_status :
        completed(layers_status[i]) =>
            /\ tasks[i].total = Some(tasks[i].downloaded)
            /\ tasks[i].downloaded = registry[tasks[i].digest].body

\* The runtime has cancelled a task whose entry is Completed.
C8_Witness ==
    \E i \in DOMAIN tasks :
        /\ tasks[i].pc = "cancelled"
        /\ completed(layers_status[i])

\* C9 (as claimed): whenever an entry is Completed, every byte of the
\* task's blob has been written to its sink.
C9_WrittenBeforeCompleted ==
    \A i \in DOMAIN layers_status :
        completed(layers_status[i]) => tasks[i].total = Some(tasks[i].written)

\* Unknown < Downloading < Completed
Rank(s) ==
    CASE s.tag = "Unknown" -> 0
      [] s.tag = "Downloading" -> 1
      [] s.tag = "Completed" -> 2

\* The byte count an entry stands for: none yet for Unknown, the recorded
\* count for Downloading, the blob's announced total for Completed.
Bytes(s) ==
    CASE s.tag = "Unknown" -> 0
      [] s.tag = "Downloading" -> s.downloaded
      [] s.tag = "Completed" ->
           IF IsSome(registry[s.digest].len)
           THEN Unwrap(registry[s.digest].len) ELSE 0

C11_FormatOfParsedIsInput ==
    (input.kind = "str" /\ trail = << "from_str", "to_string" >>)
      => val = input

\* "a:b:" was parsed (its hash "b:" holds a ':') and formatted again.
C11_Witness ==
    /\ input = Str(<< "a", ":", "b", ":" >>)
    /\ trail = << "from_str", "to_string" >>
    /\ val.kind = "str"

\* The text holds no ':'.
NoColon(s) == \A i \in 1..Len(s) : s[i] # ":"

\* C12 (as claimed): for every Digest with a non-empty algorithm and a
\* non-empty hash, parsing its text form gives an equal Digest.
C12_ParseOfFormattedIsInput ==
    ( /\ input.kind = "digest"
      /\ input.algorithm # << >>
      /\ input.hash # << >>
      /\ trail = << "to_string", "from_str" >> )
      => val = input

\* C12 (amended): for every Digest whose algorithm holds no ':', parsing
\* its text form gives an equal Digest.
C12_ParseOfFormattedNoColon ==
    ( /\ input.kind = "digest"
      /\ NoColon(input.algorithm)
      /\ trail = << "to_string", "from_str" >> )
      => val = input

\* The Digest { algorithm: "a", hash: ":b" } was formatted and parsed.
C12_Witness ==
    /\ input = Digest(<< "a" >>, << ":", "b" >>)
    /\ trail = << "to_string", "from_str" >>
    /\ val.kind = "digest"

\* C13: parsing fails with ParseDigestError exactly for the texts without
\* ':'; every other text gives the Digest whose algorithm is the text before
\* the first ':' and whose hash is all of the text after it.
C13_ParseSplitsAtFirstColon ==
    (input.kind = "str" /\ trail = << "from_str" >>) =>
        IF NoColon(input.s)
        THEN val = ParseDigestError
        ELSE /\ val.kind = "digest"
             /\ NoColon(val.algorithm)
             /\ val.algorithm \o << ":" >> \o val.hash = input.s

\* "a:b:" was parsed into the algorithm "a" and the hash "b:".
C13_Witness ==
    /\ input = Str(<< "a", ":", "b", ":" >>)
    /\ trail = << "from_str" >>
    /\ val = Digest(<< "a" >>, << "b", ":" >>)

\* C14 (as claimed): every Digest obtained by a successful parse has a
\* non-empty algorithm and a non-empty hash.
C14_ParsedFieldsNonEmpty ==
    (trail = << "from_str" >> /\ val.kind = "digest")
      => (val.algorithm # << >> /\ val.hash # << >>)

\* C15 (as claimed): a Digest with a non-empty ':'-free algorithm and a
\* non-empty hash is serialized as "<algorithm>:<hash>", and deserializing
\* what was serialized gives an equal Digest.
C15_SerializeRoundTrip ==
    ( /\ input.kind = "digest"
      /\ input.algorithm # << >>
      /\ NoColon(input.algorithm)
      /\ input.hash # << >> )
      => /\ trail = << "serialize" >>
            => val = Str(input.algorithm \o << ":" >> \o input.hash)
         /\ trail = << "serialize", "deserialize" >> => val = input

\* The bytes of the chunks among the first k results chunk() returned.
RECURSIVE ReturnedBytes(_)
ReturnedBytes(k) ==
    IF k = 0
    THEN << >>
    ELSE ReturnedBytes(k - 1)
           \o (IF returned[k].tag = "Ok" /\ returned[k].v # None
               THEN Unwrap(returned[k].v)
               ELSE << >>)

\* chunk() has returned the end of the stream, and no error before it.
SawEndOfStream ==
    /\ returned # << >>
    /\ returned[Len(returned)] = Ok(None)
    /\ \A k \in 1..Len(returned) : returned[k].tag = "Ok"

\* C16: after any sequence of chunk() calls the hasher holds exactly the
\* chunks returned to the caller, concatenated in order, and these are the
\* chunks the stream has delivered so far; digest() is the sha256 digest of
\* that, so after the end of the stream it is the digest of the whole body.
C16_HashCoversReturnedChunks ==
    blob # None =>
      LET b == Unwrap(blob)
          r == b.response
      IN  /\ b.hasher = ReturnedBytes(Len(returned))
          /\ b.hasher = ChunkBytes(r.events, r.pos)
          /\ blob_digest # None =>
               blob_digest = Some(from_sha256(Sha256Result(
                                    ReturnedBytes(Len(returned)))))
          /\ (blob_digest # None /\ SawEndOfStream) =>
               blob_digest = Some(from_sha256(Sha256Result(
                                    ChunkBytes(r.events, Len(r.events)))))

\* C16 witness: the chunks "ab" and "ba" and the end of the stream were
\* returned, and digest() gave the sha256 digest of "abba".
C16_Witness ==
    /\ returned = << Ok(Some(<< "a", "b" >>)), Ok(Some(<< "b", "a" >>)),
                     Ok(None) >>
    /\ blob_digest =
         Some(from_sha256(Sha256Result(<< "a", "b", "b", "a" >>)))

\* The latest call was a call of one of ops and the transport answered it.
Answered(ops) ==
    /\ request # None
    /\ Unwrap(request).op \in ops
    /\ response # None
    /\ Unwrap(response).sent

\* The latest call returned an error of the given variant.
FailedAs(variant) ==
    /\ outcome # None
    /\ Unwrap(outcome).tag = "Err"
    /\ Unwrap(outcome).e.variant = variant

\* C17: for auth, list_manifests, manifest, config and blob, an answer whose
\* status is not 200 and whose body decodes as an error list gives an
\* APIError with exactly the decoded errors, and an answer with status 200
\* never gives an APIError.
C17_APIErrorOnNon200 ==
    Answered({"auth", "list_manifests", "manifest", "config", "blob"}) =>
      LET resp == Unwrap(response)
      IN  /\ (resp.status # StatusOK /\ resp.body.errors # None) =>
               outcome = Some(Err(APIError(Unwrap(resp.body.errors))))
          /\ resp.status = StatusOK => ~FailedAs("APIError")

\* C17 witness: manifest was answered 404 with the error list <<"e1">> and
\* returned the APIError carrying it.
C17_Witness ==
    /\ Answered({"manifest"})
    /\ Unwrap(response).status = 404
    /\ Unwrap(response).body.errors = Some(<< "e1" >>)
    /\ outcome = Some(Err(APIError(<< "e1" >>)))

\* C18: a list_manifests, manifest, config or blob request carries a bearer
\* credential exactly when the token set last is present, and the credential
\* is that token; with no token (none set yet, or None set last) it carries
\* none.
C18_BearerIsLatestToken ==
    (/\ request # None
     /\ Unwrap(request).op \in {"list_manifests", "manifest", "config", "blob"})
      => Unwrap(request).bearer =
           (IF last_set = None
            THEN None
            ELSE Some(Unwrap(last_set).access_token))

\* C18 witness: after a token and then None were set, a blob request went
\* out without a bearer credential.
C18_Witness ==
    /\ calls = 3
    /\ last_set = None
    /\ request # None
    /\ Unwrap(request).op = "blob"
    /\ Unwrap(request).bearer = None

\* The answer's body cannot be decoded as what its status calls for.
Undecodable(op, resp) ==
    IF resp.status = StatusOK
    THEN op # "blob" /\ resp.body.typed = None
    ELSE resp.body.errors = None

C20_DoneOnlyWhenAllCompleted ==
    mainPc = "done" =>
      /\ Len(layers_status) = Len(tasks)
      /\ \A i \in 1..Len(layers_status) :
           layers_status[i] = Completed(layers_status[i].digest)
      /\ \A i \in 1..Len(tasks) :
           /\ tasks[i].pc # "panicked"
           /\ tasks[i].total = Some(tasks[i].downloaded)
           /\ tasks[i].downloaded = registry[tasks[i].digest].body

\* C20 witness: main has left its loop over a table of two entries, both
\* Completed, while the second task, all 2 bytes of its blob received, still
\* has its last chunk to write.
C20_Witness ==
    /\ mainPc = "done"
    /\ layers = << "d1", "d2", "d1" >>
    /\ layers_status = << Completed("d1"), Completed("d2") >>
    /\ registry["d2"].body = 2
    /\ tasks[2].pending = 1

\* C21: every step that changes the progress table is either a push of the
\* scan that builds it (a new Unknown entry at its end, before the loop) or
\* the consumer's receipt of one report, which takes that report off the
\* channel and changes at most the entry it names: the other entries and the
\* table's length stay as they are.  No step of a task changes the table.
C21_OnlyReceiptChangesOneEntry ==
    [][ layers_status' # layers_status =>
          \/ /\ mainPc = "scan"
             /\ Len(layers_status') = Len(layers_status) + 1
             /\ SubSeq(layers_status', 1, Len(layers_status)) = layers_status
             /\ layers_status'[Len(layers_status')].tag = "Unknown"
          \/ /\ mainPc = "recv"
             /\ chan # << >>
             /\ chan' = Tail(chan)
             /\ tasks' = tasks
             /\ Len(layers_status') = Len(layers_status)
             /\ \A j \in 1..Len(layers_status) :
                  j # Head(chan).n + 1 =>
                    layers_status'[j] = layers_status[j] ]_vars

\* C21 witness: the consumer has recorded reports of both tasks, and each
\* entry is as the last report naming it left it.
C21_Witness ==
    /\ mainPc = "recv"
    /\ layers_status = << Downloading("d1", 1, 2), Completed("d2") >>

\* The distinct digests of the first k layers, in order of first occurrence.
RECURSIVE FirstOccurrences(_, _)
FirstOccurrences(ls, k) ==
    IF k = 0
    THEN << >>
    ELSE LET before == FirstOccurrences(ls, k - 1)
         IN  IF \E j \in 1..Len(before) : before[j] = ls[k]
             THEN before
             ELSE Append(before, ls[k])

\* C22: the tasks have the indices 0..k-1 in the order in which their
\* digests first occur among the layers, the table holds these digests at
\* these indices at all times, and every report in the channel names a valid
\* index of the table and carries the digest of the entry at that index.
C22_IndicesDenseAndDigestsFixed ==
    LET firsts == FirstOccurrences(layers, n)
    IN  /\ Len(tasks) = Len(firsts)
        /\ Len(layers_status) = Len(firsts)
        /\ \A i \in 1..Len(tasks) :
             tasks[i].n = i - 1 /\ tasks[i].digest = firsts[i]
        /\ \A i \in 1..Len(layers_status) :
             layers_status[i].digest = firsts[i]
        /\ \A k \in 1..Len(chan) :
             /\ chan[k].n + 1 \in 1..Len(layers_status)
             /\ chan[k].digest = layers_status[chan[k].n + 1].digest

\* C22 witness: of the layers [d1, d1, d2] the task of d2 has the index 1,
\* and a report of it with that index is in the channel.
C22_Witness ==
    /\ layers = << "d1", "d1", "d2" >>
    /\ chan # << >>
    /\ chan[1] = DownloadProgressReport(1, "d2", 1, 2)
    /\ layers_status = << Unknown("d1"), Unknown("d2") >>

\* A blob that fails: blob() returns an error, or the stream ends in one.
FailsBlob(r) == r.status = "err" \/ FailsMidBlob(r)

\* A blob with a known total whose stream delivers all its bytes.
DeliversKnownTotal(r) ==
    /\ r.status = "ok"
    /\ IsSome(r.len)
    /\ r.body = Unwrap(r.len)
    /\ r.end = "eof"

\* The entry of digest d is Completed.
MarkedCompleted(d) ==
    \E i \in 1..Len(layers_status) : layers_status[i] = Completed(d)

\* C23 (as claimed): when the task of some layer fails at opening its blob
\* or mid-stream, every other scheduled task with a known total whose
\* stream delivers all its bytes is eventually marked Completed, under fair
\* scheduling and every interleaving.
C23_FailureIsolated ==
    \A d \in Digests :
        ( /\ d \in Range(layers)
          /\ DeliversKnownTotal(registry[d])
          /\ \E f \in Range(layers) \ {d} : FailsBlob(registry[f]) )
        => <>MarkedCompleted(d)

\* C24 (as claimed): a scheduled task whose blob has a known total of 0
\* bytes, its stream ending without a chunk, is eventually marked Completed.
C24_EmptyBlobCompleted ==
    \A d \in Digests :
        ( /\ d \in Range(layers)
          /\ DeliversKnownTotal(registry[d])
          /\ registry[d].len = Some(0) )
        => <>MarkedCompleted(d)

====
